---- MODULE Spec2Model ----
(***************************************************************************)
(* Model of rust-core/src/wasm_vm.rs: the WasmVM session (contract         *)
(* registry, gas counter) and its operations deploy_contract,              *)
(* call_contract, execute_wasm and deposit.                                *)
(*                                                                         *)
(* u64 values are four 16-bit limbs, most significant first, so that the   *)
(* full 64-bit width is kept.  Strings are sequences of one-character      *)
(* strings; byte vectors are sequences of numbers 0..255.                  *)
(***************************************************************************)
EXTENDS Integers, Sequences, FiniteSets

VARIABLES
    contracts,  \* WasmVM.contracts: address -> [address, code, storage, balance]
    gas_limit,  \* WasmVM.gas_limit
    gas_used,   \* WasmVM.gas_used
    panicked,   \* an arithmetic overflow has panicked: the operation did not return
    op,         \* the operation invoked last, with its arguments
    ret,        \* what that operation returned
    nops,       \* the number of operations invoked so far
    served      \* the number of call_contract invocations that returned anything
                \* but "Out of gas"

vars == <<contracts, gas_limit, gas_used, panicked, op, ret, nops, served>>

----------------------------------------------------------------------------
(* Bounds of the model *)

\* number of operations explored in one session
MaxOps == 4

----------------------------------------------------------------------------
(* u64 arithmetic on limbs *)

Base == 2 ^ 16

Limbs == 1 .. 4

U64(n) == <<0, 0, n \div Base, n % Base>>

Zero == <<0, 0, 0, 0>>

MaxU64 == <<Base - 1, Base - 1, Base - 1, Base - 1>>

\* a < b
Lt(a, b) ==
    \E i \in Limbs : a[i] < b[i] /\ \A j \in 1 .. (i - 1) : a[j] = b[j]

Gt(a, b) == Lt(b, a)

Ge(a, b) == ~ Lt(a, b)

Le(a, b) == ~ Lt(b, a)

\* a + b: the low 64 bits and the carry out of bit 63
AddC(a, b) ==
    LET s4 == a[4] + b[4]
        s3 == a[3] + b[3] + (s4 \div Base)
        s2 == a[2] + b[2] + (s3 \div Base)
        s1 == a[1] + b[1] + (s2 \div Base)
    IN  [val |-> <<s1 % Base, s2 % Base, s3 % Base, s4 % Base>>,
         carry |-> s1 \div Base]

\* a - b modulo 2^64
Sub(a, b) ==
    LET d4 == a[4] - b[4]
        b4 == IF d4 < 0 THEN 1 ELSE 0
        d3 == a[3] - b[3] - b4
        b3 == IF d3 < 0 THEN 1 ELSE 0
        d2 == a[2] - b[2] - b3
        b2 == IF d2 < 0 THEN 1 ELSE 0
        d1 == a[1] - b[1] - b2
    IN  <<d1 % Base, d2 % Base, d3 % Base, d4 % Base>>

\* a * 10 + d: the low 64 bits and the carry out
MulAdd10(a, d) ==
    LET s4 == a[4] * 10 + d
        s3 == a[3] * 10 + (s4 \div Base)
        s2 == a[2] * 10 + (s3 \div Base)
        s1 == a[1] * 10 + (s2 \div Base)
    IN  [val |-> <<s1 % Base, s2 % Base, s3 % Base, s4 % Base>>,
         carry |-> s1 \div Base]

\* a divided by 10: quotient and remainder
DivMod10(a) ==
    LET c1 == a[1]
        c2 == (c1 % 10) * Base + a[2]
        c3 == (c2 % 10) * Base + a[3]
        c4 == (c3 % 10) * Base + a[4]
    IN  [quot |-> <<c1 \div 10, c2 \div 10, c3 \div 10, c4 \div 10>>,
         rem |-> c4 % 10]

\* x += n, the outcomes a build can produce: on overflow the addition panics
\* and x keeps its value (overflow checks on) or it wraps (overflow checks off)
AddAssign(x, n) ==
    LET s == AddC(x, n)
    IN  IF s.carry = 0 THEN {[panic |-> FALSE, val |-> s.val]}
        ELSE {[panic |-> TRUE, val |-> x], [panic |-> FALSE, val |-> s.val]}

----------------------------------------------------------------------------
(* Strings *)

DigitChars == <<"0", "1", "2", "3", "4", "5", "6", "7", "8", "9">>

IsDigit(c) == \E i \in 1 .. 10 : DigitChars[i] = c

DigitVal(c) == (CHOOSE i \in 1 .. 10 : DigitChars[i] = c) - 1

\* mutant: the digits come out least significant first
RECURSIVE ToString_Reversed(_)
ToString_Reversed(a) ==
    LET qr == DivMod10(a)
    IN  IF qr.quot = Zero THEN <<DigitChars[qr.rem + 1]>>
        ELSE <<DigitChars[qr.rem + 1]>> \o ToString_Reversed(qr.quot)

\* u64::to_string
RECURSIVE ToString(_)
ToString(a) ==
    LET qr == DivMod10(a)
    IN  IF qr.quot = Zero THEN <<DigitChars[qr.rem + 1]>>
        ELSE ToString(qr.quot) \o <<DigitChars[qr.rem + 1]>>

\* usize::to_string for the small lengths formatted by the code
LenToString(n) == ToString(U64(n))

\* the digit loop of str::parse::<u64>: acc is the value so far
RECURSIVE ParseDigits(_, _)
ParseDigits(s, acc) ==
    IF Len(s) = 0 THEN [ok |-> TRUE, val |-> acc]
    ELSE IF ~ IsDigit(Head(s)) THEN [ok |-> FALSE, val |-> Zero]
    ELSE LET m == MulAdd10(acc, DigitVal(Head(s)))
         IN  IF m.carry # 0 THEN [ok |-> FALSE, val |-> Zero]
             ELSE ParseDigits(Tail(s), m.val)

\* mutant: a leading '-' is skipped like a leading '+'
ParseU64_MinusAccepted(s) ==
    IF Len(s) = 0 THEN [ok |-> FALSE, val |-> Zero]
    ELSE IF Len(s) = 1 /\ Head(s) \in {"+", "-"} THEN [ok |-> FALSE, val |-> Zero]
    ELSE IF Head(s) \in {"+", "-"} THEN ParseDigits(Tail(s), Zero)
    ELSE ParseDigits(s, Zero)

\* str::parse::<u64>: empty, a lone sign, a '-' sign, a non-digit or a value
\* above u64::MAX is an error; one leading '+' is accepted
ParseU64(s) ==
    IF Len(s) = 0 THEN [ok |-> FALSE, val |-> Zero]
    ELSE IF Len(s) = 1 /\ Head(s) \in {"+", "-"} THEN [ok |-> FALSE, val |-> Zero]
    ELSE IF Head(s) = "+" THEN ParseDigits(Tail(s), Zero)
    ELSE ParseDigits(s, Zero)

\* amount_str.parse().unwrap_or(0)
ParseAmount(s) == LET p == ParseU64(s) IN IF p.ok THEN p.val ELSE Zero

\* String::into_bytes for the characters the code formats
Ascii(c) ==
    CASE c = " " -> 32
      [] IsDigit(c) -> 48 + DigitVal(c)
      [] c = "A" -> 65 [] c = "M" -> 77 [] c = "S" -> 83 [] c = "W" -> 87
      [] c = "b" -> 98 [] c = "c" -> 99 [] c = "d" -> 100 [] c = "e" -> 101
      [] c = "f" -> 102 [] c = "i" -> 105 [] c = "n" -> 110 [] c = "o" -> 111
      [] c = "p" -> 112 [] c = "r" -> 114 [] c = "s" -> 115 [] c = "t" -> 116
      [] c = "u" -> 117 [] c = "x" -> 120 [] c = "y" -> 121

IntoBytes(s) == [i \in 1 .. Len(s) |-> Ascii(s[i])]

\* method names matched by call_contract
S_get_balance == <<"g", "e", "t", "_", "b", "a", "l", "a", "n", "c", "e">>

S_get_storage == <<"g", "e", "t", "_", "s", "t", "o", "r", "a", "g", "e">>

S_set_storage == <<"s", "e", "t", "_", "s", "t", "o", "r", "a", "g", "e">>

S_transfer == <<"t", "r", "a", "n", "s", "f", "e", "r">>

\* format!("Storage set: {} = {}", key, value)
FmtStorageSet(key, value) ==
    <<"S", "t", "o", "r", "a", "g", "e", " ", "s", "e", "t", ":", " ">>
        \o key \o <<" ", "=", " ">> \o value

\* format!("Transferred: {}", amount)
FmtTransferred(amount) ==
    <<"T", "r", "a", "n", "s", "f", "e", "r", "r", "e", "d", ":", " ">>
        \o ToString(amount)

\* format!("WASM method '{}' executed with {} args", method, args.len())
FmtFallback(method, n) ==
    <<"W", "A", "S", "M", " ", "m", "e", "t", "h", "o", "d", " ", "'">>
        \o method
        \o <<"'", " ", "e", "x", "e", "c", "u", "t", "e", "d", " ", "w", "i", "t", "h", " ">>
        \o LenToString(n)
        \o <<" ", "a", "r", "g", "s">>

\* format!("WASM executed for {} bytes input", input.len())
FmtExecuted(n) ==
    <<"W", "A", "S", "M", " ", "e", "x", "e", "c", "u", "t", "e", "d", " ", "f", "o", "r", " ">>
        \o LenToString(n)
        \o <<" ", "b", "y", "t", "e", "s", " ", "i", "n", "p", "u", "t">>

----------------------------------------------------------------------------
(* Results *)

Ok(v) == [ok |-> TRUE, val |-> v]

Err(msg) == [ok |-> FALSE, err |-> msg]

Failed(r, msg) == (~ r.ok) /\ r.err = msg

\* the error messages of the code and the failure they stand for
DuplicateAddress == "Contract already exists at address"

InvalidFormat == "Invalid WASM magic number"

GasExhausted == "Out of gas"

ContractNotFound == "Contract not found"

MissingStorageKey == "Missing storage key"

MissingKeyOrValue == "Missing key or value"

MissingAmount == "Missing amount"

InsufficientBalance == "Insufficient balance"

\* an arithmetic overflow panic: the operation does not return
OverflowPanic == "attempt to add with overflow"

----------------------------------------------------------------------------
(* Gas costs *)

DeployGas == 21000

CallBaseGas == 3000

SetStorageGas == 5000

TransferGas == 10000

FallbackGas == 1000

ExecuteGas == 10000

----------------------------------------------------------------------------
(* Inputs explored *)

Addresses == {<<"c", "1">>, <<"c", "2">>}

\* b"\0asm"
Magic == <<0, 97, 115, 109>>

Codes ==
    { <<>>,
      <<0, 97, 115>>,
      <<0, 97, 115, 109>>,
      <<0, 97, 115, 109, 1, 0, 0, 0>>,
      <<1, 97, 115, 109>>,
      <<0, 97, 115, 110, 1, 0, 0, 0>> }

Mint == <<"m", "i", "n", "t">>

K1 == <<"k">>

K2 == <<"1">>

V1 == <<"v">>

S_100 == <<"1", "0", "0">>

\* (method, args) pairs
CallInputs ==
    ({S_get_balance} \X {<<>>, <<K1>>})
        \cup ({S_get_storage} \X {<<>>, <<K1>>, <<K2>>})
        \cup ({S_set_storage} \X {<<>>, <<K1>>, <<K1, V1>>, <<K1, <<>>>>, <<K2, V1>>, <<K1, V1, K2>>})
        \cup ({S_transfer} \X {<<>>, <<K1>>, <<K2>>, <<S_100>>})
        \cup ({Mint} \X {<<>>, <<K1, V1>>})

Inputs == {<<>>, <<1, 2, 3>>}

Amounts == {U64(100), MaxU64}

GasLimits == {U64(24000), U64(1000000)}

----------------------------------------------------------------------------
(* The session *)

\* WasmVM::new: no contracts, gas_used 0
Init ==
    /\ contracts = [a \in {} |-> {}]
    /\ gas_limit \in GasLimits
    /\ gas_used = Zero
    /\ panicked = FALSE
    /\ op = [name |-> "new"]
    /\ ret = Ok(<<>>)
    /\ nops = 0
    /\ served = 0

\* mutant: an existing key keeps its value
Insert_KeepExisting(m, k, v) ==
    IF k \in DOMAIN m THEN m ELSE [x \in (DOMAIN m) \cup {k} |-> IF x = k THEN v ELSE m[x]]

\* HashMap::insert
Insert(m, k, v) == [x \in (DOMAIN m) \cup {k} |-> IF x = k THEN v ELSE m[x]]

\* mutant: only the first three bytes are compared
InvalidMagic_Prefix3(code) == Len(code) < 4 \/ SubSeq(code, 1, 3) # SubSeq(Magic, 1, 3)

\* code.len() < 4 || &code[0..4] != b"\0asm"
InvalidMagic(code) == Len(code) < 4 \/ SubSeq(code, 1, 4) # Magic

NewContract(address, code) ==
    [address |-> address, code |-> code, storage |-> [k \in {} |-> <<>>], balance |-> Zero]

\* the state an operation leaves and what it returns
Outcome(cs, g, r) == [contracts |-> cs, gas_used |-> g, ret |-> r, panic |-> FALSE]

\* the state at an overflow panic
Panic(cs, g) == [contracts |-> cs, gas_used |-> g, ret |-> Err(OverflowPanic), panic |-> TRUE]

\* self.gas_used += cost, then return r
ChargeThen(cs, g, cost, r) ==
    {IF c.panic THEN Panic(cs, g) ELSE Outcome(cs, c.val, r) : c \in AddAssign(g, U64(cost))}

\* contracts.contains_key(address)
Registered(address) == address \in DOMAIN contracts

\* mutant: the deploy charge is taken before the checks
DeployOutcomes_ChargeFirst(address, code) ==
    IF Registered(address) THEN ChargeThen(contracts, gas_used, DeployGas, Err(DuplicateAddress))
    ELSE IF InvalidMagic(code) THEN ChargeThen(contracts, gas_used, DeployGas, Err(InvalidFormat))
    ELSE ChargeThen(Insert(contracts, address, NewContract(address, code)),
                    gas_used, DeployGas, Ok(<<>>))

\* mutant: no duplicate check, a second deploy replaces the contract
DeployOutcomes_NoDuplicateCheck(address, code) ==
    IF InvalidMagic(code) THEN {Outcome(contracts, gas_used, Err(InvalidFormat))}
    ELSE ChargeThen(Insert(contracts, address, NewContract(address, code)),
                    gas_used, DeployGas, Ok(<<>>))

\* mutant: deploy is refused when its charge passes the limit
DeployOutcomes_GasChecked(address, code) ==
    IF Registered(address) THEN {Outcome(contracts, gas_used, Err(DuplicateAddress))}
    ELSE IF InvalidMagic(code) THEN {Outcome(contracts, gas_used, Err(InvalidFormat))}
    ELSE IF Gt(AddC(gas_used, U64(DeployGas)).val, gas_limit)
    THEN {Outcome(contracts, AddC(gas_used, U64(DeployGas)).val, Err(GasExhausted))}
    ELSE ChargeThen(Insert(contracts, address, NewContract(address, code)),
                    gas_used, DeployGas, Ok(<<>>))

\* mutant: the header is validated before the duplicate check
DeployOutcomes_ValidateFirst(address, code) ==
    IF InvalidMagic(code) THEN {Outcome(contracts, gas_used, Err(InvalidFormat))}
    ELSE IF Registered(address) THEN {Outcome(contracts, gas_used, Err(DuplicateAddress))}
    ELSE ChargeThen(Insert(contracts, address, NewContract(address, code)),
                    gas_used, DeployGas, Ok(<<>>))

DeployOutcomes(address, code) ==
    IF Registered(address) THEN {Outcome(contracts, gas_used, Err(DuplicateAddress))}
    ELSE IF InvalidMagic(code) THEN {Outcome(contracts, gas_used, Err(InvalidFormat))}
    ELSE ChargeThen(Insert(contracts, address, NewContract(address, code)),
                    gas_used, DeployGas, Ok(<<>>))

\* mutant: >= in place of >
OutOfGas_Ge(g) == Ge(g, gas_limit)

\* self.gas_used > self.gas_limit
OutOfGas(g) == Gt(g, gas_limit)

\* "get_balance" arm
GetBalance(address, g) ==
    {Outcome(contracts, g, Ok(ToString(contracts[address].balance)))}

\* contract.storage.get(key).cloned().unwrap_or_default()
StorageGet(st, key) == IF key \in DOMAIN st THEN st[key] ELSE <<>>

\* "get_storage" arm
GetStorage(address, g, args) ==
    IF Len(args) >= 1
    THEN {Outcome(contracts, g, Ok(StorageGet(contracts[address].storage, args[1])))}
    ELSE {Outcome(contracts, g, Err(MissingStorageKey))}

\* mutant: the 5000 is charged before the arguments are counted
SetStorage_ChargeFirst(address, g, args) ==
    IF Len(args) >= 2
    THEN LET c == contracts[address]
             written == [c EXCEPT !.storage = Insert(c.storage, args[1], args[2])]
         IN  ChargeThen([contracts EXCEPT ![address] = written], g, SetStorageGas,
                        Ok(FmtStorageSet(args[1], args[2])))
    ELSE ChargeThen(contracts, g, SetStorageGas, Err(MissingKeyOrValue))

\* "set_storage" arm
SetStorage(address, g, args) ==
    IF Len(args) >= 2
    THEN LET c == contracts[address]
             written == [c EXCEPT !.storage = Insert(c.storage, args[1], args[2])]
         IN  ChargeThen([contracts EXCEPT ![address] = written], g, SetStorageGas,
                        Ok(FmtStorageSet(args[1], args[2])))
    ELSE {Outcome(contracts, g, Err(MissingKeyOrValue))}

\* mutant: the balance is not compared
CanTransfer_Always(balance, amount) == TRUE

\* contract.balance >= amount
CanTransfer(balance, amount) == Ge(balance, amount)

\* mutant: the 10000 is charged before the balance is compared
Transfer_ChargeFirst(address, g, args) ==
    IF Len(args) >= 1
    THEN LET c == contracts[address]
             amount == ParseAmount(args[1])
         IN  IF CanTransfer(c.balance, amount)
             THEN ChargeThen([contracts EXCEPT ![address].balance = Sub(c.balance, amount)],
                             g, TransferGas, Ok(FmtTransferred(amount)))
             ELSE ChargeThen(contracts, g, TransferGas, Err(InsufficientBalance))
    ELSE {Outcome(contracts, g, Err(MissingAmount))}

\* "transfer" arm
Transfer(address, g, args) ==
    IF Len(args) >= 1
    THEN LET c == contracts[address]
             amount == ParseAmount(args[1])
         IN  IF CanTransfer(c.balance, amount)
             THEN ChargeThen([contracts EXCEPT ![address].balance = Sub(c.balance, amount)],
                             g, TransferGas, Ok(FmtTransferred(amount)))
             ELSE {Outcome(contracts, g, Err(InsufficientBalance))}
    ELSE {Outcome(contracts, g, Err(MissingAmount))}

\* mutant: the fallback charges nothing
Fallback_NoCharge(g, method, args) ==
    {Outcome(contracts, g, Ok(FmtFallback(method, Len(args))))}

\* the "_" arm
Fallback(g, method, args) ==
    ChargeThen(contracts, g, FallbackGas, Ok(FmtFallback(method, Len(args))))

\* match method { ... }
Dispatch(address, g, method, args) ==
    CASE method = S_get_balance -> GetBalance(address, g)
      [] method = S_get_storage -> GetStorage(address, g, args)
      [] method = S_set_storage -> SetStorage(address, g, args)
      [] method = S_transfer -> Transfer(address, g, args)
      [] OTHER -> Fallback(g, method, args)

\* mutant: the registry lookup comes before the gas check
AfterBaseCharge_LookupFirst(address, g, method, args) ==
    IF ~ Registered(address) THEN {Outcome(contracts, g, Err(ContractNotFound))}
    ELSE IF OutOfGas(g) THEN {Outcome(contracts, g, Err(GasExhausted))}
    ELSE Dispatch(address, g, method, args)

\* after the base charge: the gas check, the lookup, the handler
AfterBaseCharge(address, g, method, args) ==
    IF OutOfGas(g) THEN {Outcome(contracts, g, Err(GasExhausted))}
    ELSE IF ~ Registered(address) THEN {Outcome(contracts, g, Err(ContractNotFound))}
    ELSE Dispatch(address, g, method, args)

\* mutant: the limit is compared before the base charge is added
CallOutcomes_CheckFirst(address, method, args) ==
    UNION {IF c.panic THEN {Panic(contracts, gas_used)}
           ELSE IF OutOfGas(gas_used) THEN {Outcome(contracts, c.val, Err(GasExhausted))}
           ELSE IF ~ Registered(address) THEN {Outcome(contracts, c.val, Err(ContractNotFound))}
           ELSE Dispatch(address, c.val, method, args) :
               c \in AddAssign(gas_used, U64(CallBaseGas))}

\* mutant: the registry lookup comes before the base charge
CallOutcomes_LookupBeforeCharge(address, method, args) ==
    IF ~ Registered(address) THEN {Outcome(contracts, gas_used, Err(ContractNotFound))}
    ELSE UNION {IF c.panic THEN {Panic(contracts, gas_used)}
                ELSE AfterBaseCharge(address, c.val, method, args) :
                    c \in AddAssign(gas_used, U64(CallBaseGas))}

CallOutcomes(address, method, args) ==
    UNION {IF c.panic THEN {Panic(contracts, gas_used)}
           ELSE AfterBaseCharge(address, c.val, method, args) :
               c \in AddAssign(gas_used, U64(CallBaseGas))}

\* mutant: the charge comes before the contains_key test
ExecuteOutcomes_ChargeFirst(address, input) ==
    IF ~ Registered(address)
    THEN ChargeThen(contracts, gas_used, ExecuteGas, Err(ContractNotFound))
    ELSE ChargeThen(contracts, gas_used, ExecuteGas, Ok(IntoBytes(FmtExecuted(Len(input)))))

\* mutant: gas_used = 10000 in place of gas_used += 10000
ExecuteOutcomes_Assign(address, input) ==
    IF ~ Registered(address) THEN {Outcome(contracts, gas_used, Err(ContractNotFound))}
    ELSE {Outcome(contracts, U64(ExecuteGas), Ok(IntoBytes(FmtExecuted(Len(input)))))}

ExecuteOutcomes(address, input) ==
    IF ~ Registered(address) THEN {Outcome(contracts, gas_used, Err(ContractNotFound))}
    ELSE ChargeThen(contracts, gas_used, ExecuteGas, Ok(IntoBytes(FmtExecuted(Len(input)))))

DepositOutcomes(address, amount) ==
    IF ~ Registered(address) THEN {Outcome(contracts, gas_used, Err(ContractNotFound))}
    ELSE {IF b.panic THEN Panic(contracts, gas_used)
          ELSE Outcome([contracts EXCEPT ![address].balance = b.val], gas_used, Ok(<<>>)) :
              b \in AddAssign(contracts[address].balance, amount)}

\* the session takes the state an operation leaves
Apply(o) ==
    /\ contracts' = o.contracts
    /\ gas_used' = o.gas_used
    /\ ret' = o.ret
    /\ panicked' = o.panic
    /\ nops' = nops + 1
    /\ UNCHANGED gas_limit

\* the process is running and the session is within the explored length
Live == (~ panicked) /\ nops < MaxOps

deploy_contract(address, code) ==
    /\ Live
    /\ \E o \in DeployOutcomes(address, code) : Apply(o)
    /\ UNCHANGED served
    /\ op' = [name |-> "deploy_contract", address |-> address, code |-> code]

\* the call returned, and not with "Out of gas"
Served(o) == (~ o.panic) /\ ~ Failed(o.ret, GasExhausted)

\* one invocation of call_contract
Call(address, method, args) ==
    /\ \E o \in CallOutcomes(address, method, args) :
           Apply(o) /\ served' = served + (IF Served(o) THEN 1 ELSE 0)
    /\ op' = [name |-> "call_contract", address |-> address, method |-> method, args |-> args]

call_contract(address, method, args) ==
    /\ Live
    /\ Call(address, method, args)

execute_wasm(address, input) ==
    /\ Live
    /\ \E o \in ExecuteOutcomes(address, input) : Apply(o)
    /\ UNCHANGED served
    /\ op' = [name |-> "execute_wasm", address |-> address, input |-> input]

deposit(address, amount) ==
    /\ Live
    /\ \E o \in DepositOutcomes(address, amount) : Apply(o)
    /\ UNCHANGED served
    /\ op' = [name |-> "deposit", address |-> address, amount |-> amount]

Next ==
    \/ \E address \in Addresses, code \in Codes : deploy_contract(address, code)
    \/ \E address \in Addresses, c \in CallInputs : call_contract(address, c[1], c[2])
    \/ \E address \in Addresses, input \in Inputs : execute_wasm(address, input)
    \/ \E address \in Addresses, amount \in Amounts : deposit(address, amount)

Spec == Init /\ [][Next]_vars

----------------------------------------------------------------------------
(* Sessions of deploys, deposits and transfers over more amount strings *)

\* 2^64 in decimal
S_TwoTo64 ==
    <<"1", "8", "4", "4", "6", "7", "4", "4", "0", "7",
      "3", "7", "0", "9", "5", "5", "1", "6", "1", "6">>

AmountStrings ==
    { <<>>, <<"k">>, <<"+">>, <<"-", "1">>, <<"1", ".", "5">>, <<"1", " ">>, S_TwoTo64,
      <<"0">>, <<"+", "1">>, <<"0", "0", "7">>, S_100 }

TransferAmounts == {U64(1), U64(100), MaxU64}

NextTransfer ==
    \/ \E address \in Addresses : deploy_contract(address, Magic)
    \/ \E address \in Addresses, s \in AmountStrings :
           call_contract(address, S_transfer, <<s>>)
    \/ \E address \in Addresses, amount \in TransferAmounts : deposit(address, amount)

SpecTransfer == Init /\ [][NextTransfer]_vars

----------------------------------------------------------------------------
(* Sessions under low ceilings that a caller keeps calling *)

StreamLimits == {Zero, U64(2999), U64(3000), U64(7000), U64(27000)}

InitStream ==
    /\ contracts = [a \in {} |-> {}]
    /\ gas_limit \in StreamLimits
    /\ gas_used = Zero
    /\ panicked = FALSE
    /\ op = [name |-> "new"]
    /\ ret = Ok(<<>>)
    /\ nops = 0
    /\ served = 0

\* the caller goes on calling while the ceiling is not passed, and within the
\* explored length after that
call_stream(address, method, args) ==
    /\ ~ panicked
    /\ Le(gas_used, gas_limit) \/ nops < MaxOps
    /\ Call(address, method, args)

\* one call of each method
StreamCalls ==
    {<<S_get_balance, <<>>>>, <<S_set_storage, <<K1, V1>>>>, <<S_transfer, <<S_100>>>>,
     <<Mint, <<>>>>}

Calling == \E address \in Addresses, c \in StreamCalls : call_stream(address, c[1], c[2])

NextStream ==
    \/ \E address \in Addresses : deploy_contract(address, Magic)
    \/ Calling
    \/ \E address \in Addresses : execute_wasm(address, <<>>)
    \/ \E address \in Addresses : deposit(address, U64(100))

SpecStream == InitStream /\ [][NextStream]_vars /\ WF_vars(Calling)

----------------------------------------------------------------------------
(* Vocabulary of the properties *)

\* a + n for a small number n, modulo 2^64
Plus(a, n) == AddC(a, U64(n)).val

\* the step is an invocation of the named operation
Invokes(name) == op'.name = name

\* the step is call_contract with this method
Calls(method) == Invokes("call_contract") /\ op'.method = method

\* the base charge of a call made now does not exceed the limit
PassesBaseCharge == Le(Plus(gas_used, 3000), gas_limit)

\* a call made now on this address gets to the method match
ReachesHandler(address) == PassesBaseCharge /\ address \in DOMAIN contracts

\* the header 00 61 73 6D
HeaderBytes == <<0, 97, 115, 109>>

BadHeader(code) == Len(code) < 4 \/ \E i \in 1 .. 4 : code[i] # HeaderBytes[i]

----------------------------------------------------------------------------
(* C1: gas_used starts at 0 and no deploy_contract, call_contract,          *)
(* execute_wasm or deposit, successful or failed, ever decreases it.        *)
C1_GasNeverDecreases ==
    (gas_used = Zero) /\ [][Le(gas_used, gas_used')]_vars

\* a failed call has charged gas
C1_Witness ==
    /\ op.name = "call_contract"
    /\ ~ ret.ok
    /\ Gt(gas_used, Zero)

(* C2: once gas_used > gas_limit, it stays so, and every call_contract      *)
(* fails with GasExhausted at the base charge: only the 3000 is added and   *)
(* no contract changes.                                                     *)
C2_ExhaustedStaysExhausted ==
    [][Gt(gas_used, gas_limit) =>
          /\ Gt(gas_used', gas_limit')
          /\ Invokes("call_contract") =>
                 /\ Failed(ret', GasExhausted)
                 /\ contracts' = contracts
                 /\ gas_used' = Plus(gas_used, 3000)]_vars

\* a call on a registered contract was made with gas_used already above the
\* limit, after the session had passed the limit with a deploy
C2_Witness ==
    /\ op.name = "call_contract"
    /\ op.address \in DOMAIN contracts
    /\ Failed(ret, GasExhausted)
    /\ Gt(Sub(gas_used, U64(3000)), gas_limit)

(* C3: a call_contract adds 3000 to gas_used and then compares: above the   *)
(* limit the call fails with GasExhausted, runs no handler and keeps the    *)
(* 3000; at or below the limit (equality included) it is not rejected for   *)
(* gas.                                                                     *)
C3_ChargeThenCheck ==
    [][Invokes("call_contract") =>
          IF PassesBaseCharge
          THEN /\ ~ Failed(ret', GasExhausted)
               /\ Ge(gas_used', Plus(gas_used, 3000))
          ELSE /\ Failed(ret', GasExhausted)
               /\ gas_used' = Plus(gas_used, 3000)
               /\ contracts' = contracts]_vars

\* the call that overshoots: it is rejected and the overshoot stays recorded
C3_Witness ==
    /\ op.name = "call_contract"
    /\ Failed(ret, GasExhausted)
    /\ Gt(gas_used, gas_limit)
    /\ Le(Sub(gas_used, U64(3000)), gas_limit)

(* C4: a call that passes the base charge and whose handler charge takes    *)
(* gas_used above gas_limit fails with GasExhausted.                        *)
C4_HandlerChargeChecked ==
    [][(Invokes("call_contract") /\ PassesBaseCharge /\ Gt(gas_used', gas_limit))
          => Failed(ret', GasExhausted)]_vars

(* C5: deploy_contract on a registered address fails with DuplicateAddress, *)
(* whatever the code, and changes neither the registry nor gas_used.        *)
C5_DuplicateDeploy ==
    [][(Invokes("deploy_contract") /\ op'.address \in DOMAIN contracts) =>
          /\ Failed(ret', DuplicateAddress)
          /\ contracts' = contracts
          /\ gas_used' = gas_used]_vars

\* a duplicate deploy with a bad header on a contract that holds state
C5_Witness ==
    /\ op.name = "deploy_contract"
    /\ Failed(ret, DuplicateAddress)
    /\ BadHeader(op.code)
    /\ contracts[op.address].balance # Zero

(* C6: deploy_contract of code with a bad header on an unregistered address *)
(* fails with InvalidFormat, registers nothing and leaves gas_used alone.   *)
C6_InvalidFormat ==
    [][(Invokes("deploy_contract") /\ op'.address \notin DOMAIN contracts
            /\ BadHeader(op'.code)) =>
          /\ Failed(ret', InvalidFormat)
          /\ contracts' = contracts
          /\ gas_used' = gas_used]_vars

\* four or more bytes that differ from the header only in the fourth
C6_Witness ==
    /\ op.name = "deploy_contract"
    /\ Failed(ret, InvalidFormat)
    /\ Len(op.code) >= 4
    /\ SubSeq(op.code, 1, 3) = SubSeq(HeaderBytes, 1, 3)
    /\ op.address \notin DOMAIN contracts

(* C7 (as amended): a deploy_contract on an unregistered address with a     *)
(* valid header succeeds for any gas_used, adds exactly 21000 and registers *)
(* a contract with balance 0 and empty storage; deploy fails only with      *)
(* DuplicateAddress or InvalidFormat; a get_balance call right after the    *)
(* deploy returns "0" when its base charge does not pass gas_limit.         *)
C7_DeployEffect ==
    (Invokes("deploy_contract") /\ op'.address \notin DOMAIN contracts
        /\ ~ BadHeader(op'.code)) =>
      /\ ret'.ok
      /\ gas_used' = Plus(gas_used, 21000)
      /\ DOMAIN contracts' = (DOMAIN contracts) \cup {op'.address}
      /\ \A b \in DOMAIN contracts : contracts'[b] = contracts[b]
      /\ contracts'[op'.address].address = op'.address
      /\ contracts'[op'.address].code = op'.code
      /\ contracts'[op'.address].balance = Zero
      /\ DOMAIN contracts'[op'.address].storage = {}

C7_DeployFailures ==
    (Invokes("deploy_contract") /\ ~ ret'.ok) =>
        ret'.err \in {DuplicateAddress, InvalidFormat}

\* the step is a get_balance call on the contract the last step deployed
C7_GetBalanceOfFresh ==
    /\ op.name = "deploy_contract"
    /\ ret.ok
    /\ Calls(S_get_balance)
    /\ op'.address = op.address

C7_SuccessfulDeploy ==
    [][/\ C7_DeployEffect
       /\ C7_DeployFailures
       /\ (C7_GetBalanceOfFresh /\ PassesBaseCharge) => ret' = Ok(<<"0">>)]_vars

\* C7 as stated: the get_balance call right after a successful deploy
\* returns "0"
C7_Original ==
    [][/\ C7_DeployEffect
       /\ C7_DeployFailures
       /\ C7_GetBalanceOfFresh => ret' = Ok(<<"0">>)]_vars

\* a deploy succeeded with gas_used already above the limit
C7_Witness ==
    /\ op.name = "deploy_contract"
    /\ ret.ok
    /\ Gt(Sub(gas_used, U64(21000)), gas_limit)

(* C8: a storage entry changes only in a set_storage call on its contract   *)
(* and key, which leaves the written value there; a get_storage that gets   *)
(* to its handler returns the entry's value, or the empty string for a key  *)
(* never written.  Hence a read after a write returns the written value     *)
(* over every interleaving without a set_storage on the same entry.         *)
StoredAt(cs, a, k) ==
    IF a \in DOMAIN cs /\ k \in DOMAIN cs[a].storage THEN <<cs[a].storage[k]>> ELSE <<>>

ValueOf(entry) == IF entry = <<>> THEN <<>> ELSE entry[1]

C8_Keys == {<<"k">>, <<"1">>}

\* the step is a set_storage(a, k, _) call that gets to write
C8_Writes(a, k) ==
    /\ Calls(S_set_storage)
    /\ op'.address = a
    /\ ReachesHandler(a)
    /\ Len(op'.args) >= 2
    /\ op'.args[1] = k

\* the step is a get_storage(a, k) call that gets to read
C8_Reads(a, k) ==
    /\ Calls(S_get_storage)
    /\ op'.address = a
    /\ ReachesHandler(a)
    /\ Len(op'.args) >= 1
    /\ op'.args[1] = k

C8_WriteThenRead ==
    [][\A a \in Addresses, k \in C8_Keys :
          /\ C8_Writes(a, k) => StoredAt(contracts', a, k) = <<op'.args[2]>>
          /\ (~ C8_Writes(a, k)) => StoredAt(contracts', a, k) = StoredAt(contracts, a, k)
          /\ C8_Reads(a, k) => ret' = Ok(ValueOf(StoredAt(contracts, a, k)))]_vars

\* a read returned the written value with another operation in between
C8_Witness ==
    /\ op.name = "call_contract"
    /\ op.method = S_get_storage
    /\ ret = Ok(<<"v">>)
    /\ nops >= 4

(* C9: a transfer that gets to its handler succeeds iff balance >= amount:  *)
(* then the balance goes down by amount, 10000 more gas is charged and      *)
(* "Transferred: {amount}" is returned; otherwise it fails with             *)
(* InsufficientBalance, changes no contract and adds only the base 3000.    *)
(* No balance leaves the unsigned range.                                    *)
C9_Text == <<"T", "r", "a", "n", "s", "f", "e", "r", "r", "e", "d", ":", " ">>

\* the amount arguments explored, the amount each stands for and the text
\* returned for it
C9_Cases ==
    { [arg |-> <<"1", "0", "0">>, amount |-> U64(100), text |-> C9_Text \o <<"1", "0", "0">>],
      [arg |-> <<"1">>, amount |-> U64(1), text |-> C9_Text \o <<"1">>],
      [arg |-> <<"k">>, amount |-> Zero, text |-> C9_Text \o <<"0">>] }

C9_Transfers(a, arg) ==
    /\ Calls(S_transfer)
    /\ op'.address = a
    /\ ReachesHandler(a)
    /\ Len(op'.args) >= 1
    /\ op'.args[1] = arg

BalancesInRange(cs) ==
    \A a \in DOMAIN cs : \A i \in Limbs : cs[a].balance[i] \in 0 .. (Base - 1)

C9_TransferIffCovered ==
    [][/\ \A a \in Addresses, c \in C9_Cases :
              C9_Transfers(a, c.arg) =>
                  IF Ge(contracts[a].balance, c.amount)
                  THEN /\ ret' = Ok(c.text)
                       /\ contracts' = [contracts EXCEPT ![a].balance = Sub(@, c.amount)]
                       /\ Le(contracts'[a].balance, contracts[a].balance)
                       /\ gas_used' = Plus(gas_used, 13000)
                  ELSE /\ Failed(ret', InsufficientBalance)
                       /\ contracts' = contracts
                       /\ gas_used' = Plus(gas_used, 3000)
       /\ BalancesInRange(contracts')]_vars

\* deposit 100, then transfer "100": the balance is back to 0
C9_Witness ==
    /\ op.name = "call_contract"
    /\ op.method = S_transfer
    /\ ret = Ok(C9_Text \o <<"1", "0", "0">>)
    /\ contracts[op.address].balance = Zero

(* C10: a call of a method other than get_balance, get_storage, set_storage *)
(* and transfer that gets to its handler returns a string containing the    *)
(* method name and the number of arguments, adds 4000 gas in all and        *)
(* changes no contract.                                                     *)
Contains(s, t) ==
    \E i \in 1 .. (Len(s) - Len(t) + 1) : SubSeq(s, i, i + Len(t) - 1) = t

C10_BuiltIn == {S_get_balance, S_get_storage, S_set_storage, S_transfer}

C10_Count(n) == <<DigitChars[n + 1]>>

C10_Fallback ==
    [][(Invokes("call_contract") /\ op'.method \notin C10_BuiltIn
            /\ ReachesHandler(op'.address)) =>
          /\ ret'.ok
          /\ Contains(ret'.val, op'.method)
          /\ Contains(ret'.val, C10_Count(Len(op'.args)))
          /\ gas_used' = Plus(gas_used, 4000)
          /\ contracts' = contracts]_vars

\* an unknown method ran with two arguments on a contract that holds state
C10_Witness ==
    /\ op.name = "call_contract"
    /\ op.method \notin C10_BuiltIn
    /\ Len(op.args) = 2
    /\ ret.ok
    /\ contracts[op.address].balance # Zero

(* C11: deposit on a registered contract returns success, leaves gas_used   *)
(* alone and makes the balance the old balance plus the amount, for every   *)
(* pair of 64-bit values, with no wrap-around and no abort; on an absent    *)
(* address it fails with ContractNotFound and changes nothing.              *)
C11_DepositAdds ==
    [][Invokes("deposit") =>
          IF op'.address \in DOMAIN contracts
          THEN LET sum == AddC(contracts[op'.address].balance, op'.amount)
               IN  /\ ret'.ok
                   /\ ~ panicked'
                   /\ gas_used' = gas_used
                   /\ sum.carry = 0
                   /\ contracts' = [contracts EXCEPT ![op'.address].balance = sum.val]
          ELSE /\ Failed(ret', ContractNotFound)
               /\ contracts' = contracts
               /\ gas_used' = gas_used]_vars

(* C12: execute_wasm on an unregistered address fails with ContractNotFound *)
(* and charges nothing; on a registered one it succeeds for any gas_used,   *)
(* adds exactly 10000 and returns the bytes of "WASM executed for {n} bytes *)
(* input" for the input length n; no contract changes either way.           *)
C12_Bytes(n) ==
    <<87, 65, 83, 77, 32, 101, 120, 101, 99, 117, 116, 101, 100, 32, 102, 111, 114, 32>>
        \o <<48 + n>>
        \o <<32, 98, 121, 116, 101, 115, 32, 105, 110, 112, 117, 116>>

C12_Execute ==
    [][Invokes("execute_wasm") =>
          /\ contracts' = contracts
          /\ IF op'.address \in DOMAIN contracts
             THEN /\ ret' = Ok(C12_Bytes(Len(op'.input)))
                  /\ gas_used' = Plus(gas_used, 10000)
             ELSE /\ Failed(ret', ContractNotFound)
                  /\ gas_used' = gas_used]_vars

\* an execute succeeded with gas_used already above the limit
C12_Witness ==
    /\ op.name = "execute_wasm"
    /\ ret.ok
    /\ Len(op.input) = 3
    /\ Gt(Sub(gas_used, U64(10000)), gas_limit)

(* C13: a registered address stays registered; every registry key maps to  *)
(* a contract whose address field is the key; a contract's code never       *)
(* changes; its storage changes only in a set_storage call on it and its    *)
(* balance only in a transfer call or a deposit on it.                      *)
C13_Registry ==
    [][/\ (DOMAIN contracts) \subseteq (DOMAIN contracts')
       /\ \A a \in DOMAIN contracts' : contracts'[a].address = a
       /\ \A a \in DOMAIN contracts :
              /\ contracts'[a].code = contracts[a].code
              /\ contracts'[a].storage # contracts[a].storage =>
                     (Calls(S_set_storage) /\ op'.address = a)
              /\ contracts'[a].balance # contracts[a].balance =>
                     ((Calls(S_transfer) \/ Invokes("deposit")) /\ op'.address = a)]_vars

\* two contracts with different code, one holding storage, the other a balance
C13_Witness ==
    \E a, b \in DOMAIN contracts :
        /\ a # b
        /\ contracts[a].code # contracts[b].code
        /\ DOMAIN contracts[a].storage # {}
        /\ contracts[b].balance # Zero

(* C14: a get_balance or get_storage call that gets to its handler adds     *)
(* exactly 3000 to gas_used and changes no contract; get_balance returns    *)
(* the balance in decimal.                                                  *)
\* s is the decimal numeral of b: digits only, no leading zero, value b
C14_DecimalOf(s, b) ==
    /\ Len(s) >= 1
    /\ Len(s) > 1 => s[1] # "0"
    /\ ParseDigits(s, Zero) = [ok |-> TRUE, val |-> b]

C14_Getters ==
    [][(Invokes("call_contract") /\ op'.method \in {S_get_balance, S_get_storage}
            /\ ReachesHandler(op'.address)) =>
          /\ gas_used' = Plus(gas_used, 3000)
          /\ contracts' = contracts
          /\ op'.method = S_get_balance =>
                 /\ ret'.ok
                 /\ C14_DecimalOf(ret'.val, contracts[op'.address].balance)]_vars

\* get_balance returned the twenty digits of 2^64 - 1
C14_Witness ==
    /\ op.name = "call_contract"
    /\ op.method = S_get_balance
    /\ ret.ok
    /\ Len(ret.val) = 20
    /\ contracts[op.address].balance = MaxU64

(* C15: get_storage without arguments, set_storage with fewer than two and  *)
(* transfer without arguments, when they get to their handler, fail with a  *)
(* missing-argument error, change no contract and add only the base 3000.   *)
C15_MissingArgument == {MissingStorageKey, MissingKeyOrValue, MissingAmount}

C15_Lacks ==
    \/ op'.method = S_get_storage /\ Len(op'.args) = 0
    \/ op'.method = S_set_storage /\ Len(op'.args) < 2
    \/ op'.method = S_transfer /\ Len(op'.args) = 0

C15_MissingArguments ==
    [][(Invokes("call_contract") /\ ReachesHandler(op'.address) /\ C15_Lacks) =>
          /\ ~ ret'.ok
          /\ ret'.err \in C15_MissingArgument
          /\ contracts' = contracts
          /\ gas_used' = Plus(gas_used, 3000)]_vars

\* set_storage with a key and no value failed on a contract that holds state
C15_Witness ==
    /\ op.name = "call_contract"
    /\ op.method = S_set_storage
    /\ Len(op.args) = 1
    /\ Failed(ret, MissingKeyOrValue)
    /\ DOMAIN contracts[op.address].storage # {}

(* C16: a transfer that gets to its handler with an amount string that is   *)
(* no decimal numeral of a 64-bit value is a transfer of 0: whatever the    *)
(* balance it returns "Transferred: 0", changes no contract and adds 13000  *)
(* gas in all.                                                              *)
C16_Unparsable ==
    { <<>>, <<"k">>, <<"+">>, <<"-", "1">>, <<"1", ".", "5">>, <<"1", " ">>,
      <<"1", "8", "4", "4", "6", "7", "4", "4", "0", "7",
        "3", "7", "0", "9", "5", "5", "1", "6", "1", "6">> }

C16_UnparsableIsZero ==
    [][\A a \in Addresses, s \in C16_Unparsable :
          C9_Transfers(a, s) =>
              /\ ret' = Ok(C9_Text \o <<"0">>)
              /\ contracts' = contracts
              /\ gas_used' = Plus(gas_used, 13000)]_vars

\* transfer "-1" succeeded as a transfer of 0 on a balance of 0
C16_Witness ==
    /\ op.name = "call_contract"
    /\ op.method = S_transfer
    /\ op.args = <<<<"-", "1">>>>
    /\ ret = Ok(C9_Text \o <<"0">>)
    /\ contracts[op.address].balance = Zero

(* C17: a call_contract that fails with ContractNotFound, a missing         *)
(* argument or InsufficientBalance leaves the session as it was but for     *)
(* 3000 more gas_used, and the call after it on a registered contract       *)
(* succeeds when its base charge does not pass gas_limit.                   *)
C17_Errors == C15_MissingArgument \cup {ContractNotFound, InsufficientBalance}

\* the next call's arguments are enough for its method (a transfer also
\* needs the balance, which the failed call did not change)
C17_WellFormed ==
    \/ op'.method = S_get_balance
    \/ op'.method = S_get_storage /\ Len(op'.args) >= 1
    \/ op'.method = S_set_storage /\ Len(op'.args) >= 2
    \/ op'.method \notin C10_BuiltIn

C17_FailureIsLocal ==
    [][/\ (Invokes("call_contract") /\ (~ ret'.ok) /\ ret'.err \in C17_Errors) =>
              /\ contracts' = contracts
              /\ gas_limit' = gas_limit
              /\ gas_used' = Plus(gas_used, 3000)
              /\ ~ panicked'
       /\ (op.name = "call_contract" /\ (~ ret.ok) /\ ret.err \in C17_Errors
               /\ Invokes("call_contract") /\ ReachesHandler(op'.address)
               /\ C17_WellFormed) =>
              ret'.ok]_vars

\* a transfer failed for the balance and the limit still admits a call
C17_Witness ==
    /\ op.name = "call_contract"
    /\ Failed(ret, InsufficientBalance)
    /\ Le(Plus(gas_used, 3000), gas_limit)

(* C18: a call_contract on an unregistered address adds 3000 to gas_used,   *)
(* changes no contract, and fails with GasExhausted when the charge takes   *)
(* gas_used above gas_limit, with ContractNotFound otherwise.               *)
C18_GasBeforeLookup ==
    [][(Invokes("call_contract") /\ op'.address \notin DOMAIN contracts) =>
          /\ gas_used' = Plus(gas_used, 3000)
          /\ contracts' = contracts
          /\ IF PassesBaseCharge
             THEN Failed(ret', ContractNotFound)
             ELSE Failed(ret', GasExhausted)]_vars

\* a call on an unregistered address was rejected for gas
C18_Witness ==
    /\ op.name = "call_contract"
    /\ op.address \notin DOMAIN contracts
    /\ Failed(ret, GasExhausted)

\* what the accounting identity attributes to the handler of a successful call
C19_HandlerShare ==
    IF op'.method = S_set_storage THEN 5000
    ELSE IF op'.method = S_transfer THEN 10000
    ELSE IF op'.method \notin C10_BuiltIn THEN 1000
    ELSE 0

\* what the accounting identity attributes to the operation of this step
C19_Share ==
    IF Invokes("deploy_contract") THEN (IF ret'.ok THEN 21000 ELSE 0)
    ELSE IF Invokes("call_contract") THEN 3000 + (IF ret'.ok THEN C19_HandlerShare ELSE 0)
    ELSE IF Invokes("execute_wasm") THEN (IF op'.address \in DOMAIN contracts THEN 10000 ELSE 0)
    ELSE 0

(* C19: gas_used is the sum of 21000 per successful deploy, 3000 per         *)
(* call_contract invocation, 5000 per set_storage that wrote, 10000 per      *)
(* transfer that decremented the balance, 1000 per fallback that ran and     *)
(* 10000 per execute on a registered address, and nothing for deposits and   *)
(* failed deploys or executes: it is zero after construction and every       *)
(* operation adds exactly its own term of the sum.                           *)
C19_GasAccounting ==
    /\ gas_used = Zero
    /\ [][gas_used' = Plus(gas_used, C19_Share)]_vars

\* a deploy, a writing set_storage and an execute are summed, the deposit that
\* follows them adds nothing
C19_Witness ==
    /\ op.name = "deposit"
    /\ ret.ok
    /\ gas_used = U64(39000)

\* served is at most floor(gas_limit / 3000)
C20_WithinCeiling == Le(U64(3000 * served), gas_limit)

(* C20: under a ceiling gas_limit at most floor(gas_limit / 3000)            *)
(* call_contract invocations return anything other than GasExhausted,        *)
(* whatever is interleaved, and a caller that keeps calling reaches a state  *)
(* from which every call_contract fails with GasExhausted.                   *)
C20_GasBoundsExecution ==
    /\ [] C20_WithinCeiling
    /\ <>[] (~ PassesBaseCharge)
    /\ [][(Invokes("call_contract") /\ ~ PassesBaseCharge) =>
              Failed(ret', GasExhausted)]_vars

\* floor(7000 / 3000) calls were served and the two after them were refused
C20_Witness ==
    /\ gas_limit = U64(7000)
    /\ served = 2
    /\ op.name = "call_contract"
    /\ Failed(ret, GasExhausted)
    /\ gas_used = U64(12000)

====
